---- MODULE Spec2Model ----
(***************************************************************************)
(* State-machine model of src/server.js (swiftshare-backend): the upload   *)
(* route with its multer storage and limits, the persisted group map, the  *)
(* three read routes and the periodic cleanup.                             *)
(*                                                                         *)
(* Strings are sequences of one-character strings, so that the naming      *)
(* scheme "<base36 time><salt>-<original name>" and its inverse            *)
(* split("-") are computed, not assumed.                                   *)
(***************************************************************************)
EXTENDS Integers, Sequences, FiniteSets, TLC

VARIABLES
    proc,          \* the node process: "up", "crashed" or "stopped"
    clock,         \* Date.now(), in ms
    timerDue,      \* when the setInterval timer next fires
    blobs,         \* the uploads folder: storedName -> [mtime, owner]
    doc,           \* fileGroups.json on disk
    fileGroupMap,  \* the in-memory map groupID -> list of storedNames
    req,           \* the upload requests, by serial number
    get,           \* the GET request in flight or last answered
    budget         \* how many more events of each bounded kind may happen

vars == <<proc, clock, timerDue, blobs, doc, fileGroupMap, req, get, budget>>

----------------------------------------------------------------------------
(* Bounds of the model.  Each scenario below grants its own budget of    *)
(* requests and outside events.                                            *)

MaxUploads == 2        \* upload requests, in all and at once
MaxParts == 5          \* file parts received, over all uploads
SoloUploads == 1       \* upload requests of the scenarios below
SweepParts == 2
SweepTicks == 1
SweepRestarts == 1
PersistParts == 3
PersistRestarts == 2
ReadParts == 2
ReadGets == 1
ReadDeletes == 2
AllParts == 2
AllEvents == 1         \* of each kind: ticks, restarts, GETs, deletions
LimitParts == 5
MaxNameLen == 2          \* characters of an original name
NamingParts == 1
NamingTicks == 2
StartupParts == 4
StartupRestarts == 1

Uploads == 1..MaxUploads

----------------------------------------------------------------------------
(* Program constants. *)

MAX_FILE_SIZE == 50 * 1024 * 1024
MAX_FILE_COUNT == 4
FILE_EXPIRY_HOURS == 24
CLEANUP_INTERVAL_MINUTES == 60
MsPerHour == 1000 * 60 * 60
CleanupIntervalMs == CLEANUP_INTERVAL_MINUTES * 60 * 1000

(* The identifiers bound at module scope of server.js.  cleanupOldFiles    *)
(* reads `uploadDir`, which is not among them.                             *)
ModuleBindings ==
    {"express", "multer", "cors", "QRCode", "path", "fs", "archiver", "app",
     "PORT", "BASE_URL", "DATA_FILE", "uploadFolder", "loadFileGroupMap",
     "saveFileGroupMap", "fileGroupMap", "MAX_FILE_SIZE", "MAX_FILE_COUNT",
     "storage", "upload", "FILE_EXPIRY_HOURS", "CLEANUP_INTERVAL_MINUTES",
     "cleanupOldFiles"}

----------------------------------------------------------------------------
(* Strings. *)

Min(a, b) == IF a < b THEN a ELSE b

Digits36 ==
    <<"0", "1", "2", "3", "4", "5", "6", "7", "8", "9", "a", "b", "c", "d",
      "e", "f", "g", "h", "i", "j", "k", "l", "m", "n", "o", "p", "q", "r",
      "s", "t", "u", "v", "w", "x", "y", "z">>

(* Number.prototype.toString(36) of a non-negative integer. *)
RECURSIVE ToString36(_)
ToString36(n) ==
    IF n < 36 THEN <<Digits36[n + 1]>>
    ELSE ToString36(n \div 36) \o <<Digits36[(n % 36) + 1]>>

(* String.prototype.substring(a, b), 0 <= a <= b, clamped to the length. *)
Substring(s, a, b) == SubSeq(s, Min(a, Len(s)) + 1, Min(b, Len(s)))

(* String.prototype.split(sep) for a one-character separator. *)
RECURSIVE Split(_, _)
Split(s, sep) ==
    IF \A i \in 1..Len(s) : s[i] # sep THEN <<s>>
    ELSE LET i == CHOOSE k \in 1..Len(s) :
                      s[k] = sep /\ \A j \in 1..(k - 1) : s[j] # sep
         IN <<SubSeq(s, 1, i - 1)>> \o Split(SubSeq(s, i + 1, Len(s)), sep)

(* Array.prototype.slice(1). *)
Slice1(a) == SubSeq(a, 2, Len(a))

(* Array.prototype.join(sep). *)
RECURSIVE Join(_, _)
Join(a, sep) ==
    IF Len(a) = 0 THEN <<>>
    ELSE IF Len(a) = 1 THEN a[1]
    ELSE a[1] \o <<sep>> \o Join(Tail(a), sep)

(* serverFilename.split("-")[0] *)
PrefixOf(storedName) == Split(storedName, "-")[1]

(* serverFilename.split("-").slice(1).join("-") *)
OriginalName_FirstSegment(storedName) ==
    LET parts == Split(storedName, "-")
    IN IF Len(parts) >= 2 THEN parts[2] ELSE <<>>

OriginalName(storedName) == Join(Slice1(Split(storedName, "-")), "-")

(* The inputs of the model: an original name with a hyphen in it. *)
OrigNames == {<<"a", "-", "b">>}

(* Math.random().toString(36): "0.k2xq..." in general, "0.i" for 0.5. *)
RandomStrs == {<<"0", ".", "k", "2", "x", "q">>, <<"0", ".", "i">>}

Sizes == {1024, MAX_FILE_SIZE + 1}

(* Every original name of up to MaxNameLen characters over a letter and   *)
(* the hyphen; multer skips a file part whose name is empty.               *)
NameChars == {"a", "-"}
NameInputs == UNION {[1..n -> NameChars] : n \in 1..MaxNameLen}

(* Math.random() can return 0, whose toString(36) is "0". *)
RandomInputs == RandomStrs \cup {<<"0">>}

(* storage.filename *)
Filename_TimeLast(now, rnd, originalname) ==
    originalname \o <<"-">> \o ToString36(now) \o Substring(rnd, 2, 5)

Filename(now, rnd, originalname) ==
    ToString36(now) \o Substring(rnd, 2, 5) \o <<"-">> \o originalname

----------------------------------------------------------------------------
(* The persisted map: fileGroups.json. *)

EmptyMap == [k \in {} |-> <<>>]

MapSet(map, k, v) == [x \in DOMAIN map \cup {k} |-> IF x = k THEN v ELSE map[x]]

(* JSON.stringify(map, null, 2): the text, as its set of members. *)
JSONstringify(map) == {<<k, map[k]>> : k \in DOMAIN map}

(* JSON.parse of such a text. *)
JSONparse(pairs) ==
    [k \in {p[1] : p \in pairs} |-> (CHOOSE p \in pairs : p[1] = k)[2]]

MissingDoc == [kind |-> "missing", pairs |-> {}]

(* How fs.writeFileSync can end: the text written; the file left as it was *)
(* (it could not be opened); the file cut short or emptied (opened with    *)
(* "w", then the write failed).                                            *)
WriteOutcomes == {"written", "untouched", "truncated", "emptied"}

loadFileGroupMap(d, readOk) ==
    IF d.kind = "missing" THEN EmptyMap
    ELSE IF ~readOk THEN EmptyMap
    ELSE IF d.kind = "emptied" THEN JSONparse({})
    ELSE IF d.kind = "truncated" THEN EmptyMap
    ELSE JSONparse(d.pairs)

(* A save that would add to the document instead of rewriting it. *)
saveFileGroupMap_Merge(map, old, w) ==
    IF w = "written"
    THEN [kind |-> "json", pairs |-> old.pairs \cup JSONstringify(map)]
    ELSE IF w = "untouched" THEN old
    ELSE [kind |-> w, pairs |-> {}]

(* The document after saveFileGroupMap(map): the error is caught and logged. *)
saveFileGroupMap(map, old, w) ==
    IF w = "written" THEN [kind |-> "json", pairs |-> JSONstringify(map)]
    ELSE IF w = "untouched" THEN old
    ELSE [kind |-> w, pairs |-> {}]

(* What saveFileGroupMap prints with console.error. *)
SaveLog(w) == IF w = "written" THEN "" ELSE "Error saving file group map"

(* fileGroupMap[groupId]: an own property, a property inherited from       *)
(* Object.prototype, or undefined.                                         *)
ConstructorId == <<"c", "o", "n", "s", "t", "r", "u", "c", "t", "o", "r">>
UnknownId == <<"z", "z">>

ObjectPrototypeKeys == {ConstructorId}

Lookup(map, k) ==
    IF k \in DOMAIN map
    THEN [kind |-> "array", list |-> map[k], length |-> Len(map[k])]
    ELSE IF k \in ObjectPrototypeKeys
    THEN [kind |-> "function", list |-> <<>>, length |-> 1]
    ELSE [kind |-> "undefined", list |-> <<>>, length |-> 0]

----------------------------------------------------------------------------
(* Requests. *)

NoLink == [route |-> "", id |-> <<>>]
NoError == [text |-> "", n |-> 0]

NewReq ==
    [phase |-> "new", files |-> <<>>, status |-> 0, error |-> NoError,
     code |-> "", link |-> NoLink, log |-> ""]

NoGet ==
    [route |-> "none", id |-> <<>>, phase |-> "done", status |-> 0,
     body |-> "", error |-> "", queue |-> <<>>, entries |-> <<>>,
     headersSent |-> FALSE]

Filenames(files) == [i \in 1..Len(files) |-> files[i].filename]

RemoveFiles(bl, names) ==
    [n \in DOMAIN bl \ {names[i] : i \in 1..Len(names)} |-> bl[n]]

WriteBlob(bl, name, u, now) ==
    [n \in DOMAIN bl \cup {name} |->
        IF n = name THEN [mtime |-> now, owner |-> u] ELSE bl[n]]

Budget(uploads, parts, ticks, restarts, gets, deletes) ==
    [uploads |-> uploads, parts |-> parts, ticks |-> ticks,
     restarts |-> restarts, gets |-> gets, deletes |-> deletes]

(* The state after `node server.js` on a fresh checkout. *)
Fresh ==
    /\ proc = "up"
    /\ clock = 0
    /\ timerDue = CleanupIntervalMs
    /\ blobs = [n \in {} |-> [mtime |-> 0, owner |-> 0]]
    /\ doc = MissingDoc
    /\ fileGroupMap = loadFileGroupMap(MissingDoc, TRUE)
    /\ req = [u \in Uploads |-> NewReq]
    /\ get = NoGet


----------------------------------------------------------------------------
(* POST /upload *)

MulterErrorCodes == {"LIMIT_FILE_SIZE", "LIMIT_FILE_COUNT", "LIMIT_UNEXPECTED_FILE"}

MulterErrorMessage_NoCount(code) ==
    IF code = "LIMIT_FILE_SIZE"
    THEN [text |-> "File too large. Maximum size is MB.",
          n |-> MAX_FILE_SIZE \div (1024 * 1024)]
    ELSE IF code = "LIMIT_UNEXPECTED_FILE"
    THEN [text |-> "Too many files selected. Maximum is", n |-> MAX_FILE_COUNT]
    ELSE [text |-> "A file upload error occurred.", n |-> 0]

MulterErrorMessage(code) ==
    IF code = "LIMIT_FILE_SIZE"
    THEN [text |-> "File too large. Maximum size is MB.",
          n |-> MAX_FILE_SIZE \div (1024 * 1024)]
    ELSE IF code = "LIMIT_UNEXPECTED_FILE" \/ code = "LIMIT_FILE_COUNT"
    THEN [text |-> "Too many files selected. Maximum is", n |-> MAX_FILE_COUNT]
    ELSE [text |-> "A file upload error occurred.", n |-> 0]

(* The answer of the multer callback to an error. *)
ErrorResponse(r, err) ==
    IF err \in MulterErrorCodes
    THEN [r EXCEPT !.phase = "done", !.status = 400,
                   !.error = MulterErrorMessage(err), !.code = err]
    ELSE [r EXCEPT !.phase = "done", !.status = 500,
                   !.error = [text |-> "An unknown server error occurred during upload.",
                              n |-> 0]]

(* Whether the multer callback reaches next(): only without an error. *)
CallsNext_OnSizeError(err) == err \in {"none", "LIMIT_FILE_SIZE"}

CallsNext(err) == err = "none"

(* A route logic that would make a group of a single file too. *)
RouteLogic_GroupsSingles(u, files) ==
    IF Len(files) = 0
    THEN /\ req' = [req EXCEPT ![u] =
                [@ EXCEPT !.phase = "done", !.status = 400,
                          !.error = [text |-> "No files uploaded", n |-> 0]]]
         /\ UNCHANGED <<fileGroupMap, doc>>
    ELSE LET uploadedFilenames == Filenames(files)
             groupID == PrefixOf(uploadedFilenames[1])
         IN /\ fileGroupMap' = MapSet(fileGroupMap, groupID, uploadedFilenames)
            /\ \E w \in WriteOutcomes :
                   /\ doc' = saveFileGroupMap(fileGroupMap', doc, w)
                   /\ req' = [req EXCEPT ![u] =
                          [@ EXCEPT !.phase = "qr",
                                    !.link = [route |-> "download-group",
                                              id |-> groupID],
                                    !.log = SaveLog(w)]]

(* The main route logic, up to the await of the QR code. *)
RouteLogic(u, files) ==
    IF Len(files) = 0
    THEN /\ req' = [req EXCEPT ![u] =
                [@ EXCEPT !.phase = "done", !.status = 400,
                          !.error = [text |-> "No files uploaded", n |-> 0]]]
         /\ UNCHANGED <<fileGroupMap, doc>>
    ELSE IF Len(files) > 1
    THEN LET uploadedFilenames == Filenames(files)
             groupID == PrefixOf(uploadedFilenames[1])
         IN /\ fileGroupMap' = MapSet(fileGroupMap, groupID, uploadedFilenames)
            /\ \E w \in WriteOutcomes :
                   /\ doc' = saveFileGroupMap(fileGroupMap', doc, w)
                   /\ req' = [req EXCEPT ![u] =
                          [@ EXCEPT !.phase = "qr",
                                    !.link = [route |-> "download-group",
                                              id |-> groupID],
                                    !.log = SaveLog(w)]]
    ELSE /\ req' = [req EXCEPT ![u] =
                [@ EXCEPT !.phase = "qr",
                          !.link = [route |-> "download-file",
                                    id |-> files[1].filename]]]
         /\ UNCHANGED <<fileGroupMap, doc>>

(* The callback given to upload.array("files"). *)
MulterCallback(u, err, files) ==
    IF CallsNext(err)
    THEN RouteLogic(u, files)
    ELSE /\ req' = [req EXCEPT ![u] = ErrorResponse(@, err)]
         /\ UNCHANGED <<fileGroupMap, doc>>

UploadBegin(u) ==
    /\ proc = "up"
    /\ req[u].phase = "new"
    /\ \A v \in 1..(u - 1) : req[v].phase # "new"
    /\ budget.uploads > 0
    /\ req' = [req EXCEPT ![u].phase = "recv"]
    /\ budget' = [budget EXCEPT !.uploads = @ - 1]
    /\ UNCHANGED <<proc, clock, timerDue, blobs, doc, fileGroupMap, get>>

(* One more file part of the multipart body reaches multer. *)
UploadFilePart(u, originalname, rnd, size, diskOk) ==
    /\ proc = "up"
    /\ req[u].phase = "recv"
    /\ budget.parts > 0
    /\ budget' = [budget EXCEPT !.parts = @ - 1]
    /\ LET files == req[u].files
           name == Filename(clock, rnd, originalname)
           file == [filename |-> name, originalname |-> originalname]
       IN IF Len(files) >= MAX_FILE_COUNT
          THEN \* busboy's filesLimit: multer removes what it stored
               /\ blobs' = RemoveFiles(blobs, Filenames(files))
               /\ MulterCallback(u, "LIMIT_FILE_COUNT", files)
          ELSE IF size > MAX_FILE_SIZE
          THEN \* the stream is cut at the limit; the cut file is removed too
               /\ blobs' = RemoveFiles(blobs, Filenames(Append(files, file)))
               /\ MulterCallback(u, "LIMIT_FILE_SIZE", files)
          ELSE IF ~diskOk
          THEN \* the write stream fails: a general error
               /\ blobs' = RemoveFiles(blobs, Filenames(files))
               /\ MulterCallback(u, "EIO", files)
          ELSE /\ blobs' = WriteBlob(blobs, name, u, clock)
               /\ req' = [req EXCEPT ![u].files = Append(files, file)]
               /\ UNCHANGED <<fileGroupMap, doc>>
    /\ UNCHANGED <<proc, clock, timerDue, get>>

(* The multipart body ends: multer calls back without an error. *)
UploadEnd(u) ==
    /\ proc = "up"
    /\ req[u].phase = "recv"
    /\ MulterCallback(u, "none", req[u].files)
    /\ UNCHANGED <<proc, clock, timerDue, blobs, get, budget>>

(* QRCode.toDataURL resolves and the success response is sent. *)
UploadRespond(u) ==
    /\ proc = "up"
    /\ req[u].phase = "qr"
    /\ req' = [req EXCEPT ![u] = [@ EXCEPT !.phase = "done", !.status = 200]]
    /\ UNCHANGED <<proc, clock, timerDue, blobs, doc, fileGroupMap, get, budget>>

(* The client goes away while its files are being received. *)
UploadAbort(u, cleaned) ==
    /\ proc = "up"
    /\ req[u].phase = "recv"
    /\ blobs' = IF cleaned THEN RemoveFiles(blobs, Filenames(req[u].files))
                ELSE blobs
    /\ req' = [req EXCEPT ![u].phase = "aborted"]
    /\ UNCHANGED <<proc, clock, timerDue, doc, fileGroupMap, get, budget>>

----------------------------------------------------------------------------
(* The process. *)

(* The process ends and the requests in flight are lost.  fileGroupMap     *)
(* keeps what the memory held when the process ended; nothing reads it     *)
(* until Start loads it anew.                                              *)
ProcessEnds(how) ==
    /\ proc' = how
    /\ UNCHANGED fileGroupMap
    /\ req' = [u \in Uploads |->
                  IF req[u].phase \in {"recv", "qr"}
                  THEN [req[u] EXCEPT !.phase = "dead"] ELSE req[u]]

(* node server.js: the map is loaded and the cleanup timer is set. *)
Start(readOk) ==
    /\ proc # "up"
    /\ budget.restarts > 0
    /\ proc' = "up"
    /\ fileGroupMap' = loadFileGroupMap(doc, readOk)
    /\ timerDue' = clock + CleanupIntervalMs
    /\ budget' = [budget EXCEPT !.restarts = @ - 1]
    /\ UNCHANGED <<clock, blobs, doc, req, get>>

(* The operator stops the process. *)
Stop ==
    /\ proc = "up"
    /\ budget.restarts > 0
    /\ ProcessEnds("stopped")
    /\ get' = IF get.phase \in {"sending", "streaming"}
              THEN [get EXCEPT !.phase = "dead"] ELSE get
    /\ UNCHANGED <<clock, timerDue, blobs, doc, budget>>

(* Time passes: a millisecond, or more than the expiry threshold. *)
TickSteps == {1, (FILE_EXPIRY_HOURS + 1) * MsPerHour}

Tick(d) ==
    /\ budget.ticks > 0
    /\ clock' = clock + d
    /\ budget' = [budget EXCEPT !.ticks = @ - 1]
    /\ UNCHANGED <<proc, timerDue, blobs, doc, fileGroupMap, req, get>>

(* A blob is removed from the uploads folder from outside the process. *)
ExternalDelete(name) ==
    /\ name \in DOMAIN blobs
    /\ budget.deletes > 0
    /\ blobs' = RemoveFiles(blobs, <<name>>)
    /\ budget' = [budget EXCEPT !.deletes = @ - 1]
    /\ UNCHANGED <<proc, clock, timerDue, doc, fileGroupMap, req, get>>

----------------------------------------------------------------------------
(* The periodic cleanup. *)

Expired(now, mtimeMs) == (now - mtimeMs) > FILE_EXPIRY_HOURS * MsPerHour

(* A cleanup that would also drop the groups left without a blob. *)
cleanupOldFiles_PrunesStore ==
    /\ proc = "up"
    /\ clock >= timerDue
    /\ LET kept == {m \in DOMAIN blobs : ~Expired(clock, blobs[m].mtime)}
           live == {g \in DOMAIN fileGroupMap :
                       \E i \in 1..Len(fileGroupMap[g]) : fileGroupMap[g][i] \in kept}
       IN /\ blobs' = [n \in kept |-> blobs[n]]
          /\ fileGroupMap' = [g \in live |-> fileGroupMap[g]]
          /\ doc' = saveFileGroupMap(fileGroupMap', doc, "written")
    /\ timerDue' = timerDue + CleanupIntervalMs
    /\ UNCHANGED <<proc, clock, req, get, budget>>

(* cleanupOldFiles, run by the timer.  Its first read of `uploadDir`       *)
(* throws a ReferenceError when no such binding exists; thrown from a      *)
(* timer callback, it ends the process.                                    *)
cleanupOldFiles ==
    /\ proc = "up"
    /\ clock >= timerDue
    /\ IF "uploadDir" \in ModuleBindings
       THEN /\ blobs' = [n \in {m \in DOMAIN blobs :
                                   ~Expired(clock, blobs[m].mtime)} |-> blobs[n]]
            /\ timerDue' = timerDue + CleanupIntervalMs
            /\ UNCHANGED <<proc, fileGroupMap, req, get>>
       ELSE /\ ProcessEnds("crashed")
            /\ get' = IF get.phase \in {"sending", "streaming"}
                      THEN [get EXCEPT !.phase = "dead"] ELSE get
            /\ UNCHANGED <<timerDue, blobs>>
    /\ UNCHANGED <<clock, doc, budget>>

----------------------------------------------------------------------------
(* The read routes. *)

GetIdle == get.phase \in {"done", "dead"}

(* The identifiers a client may ask for. *)
FileIds == DOMAIN blobs \cup {UnknownId}
GroupIds == DOMAIN fileGroupMap \cup {UnknownId, ConstructorId}

Answer(route, id, status, body, error) ==
    [route |-> route, id |-> id, phase |-> "done", status |-> status,
     body |-> body, error |-> error, queue |-> <<>>, entries |-> <<>>,
     headersSent |-> TRUE]

(* GET /download-file/:filename, up to res.download *)
DownloadFile(filename) ==
    /\ proc = "up"
    /\ GetIdle
    /\ budget.gets > 0
    /\ get' = IF filename \in DOMAIN blobs
              THEN [NoGet EXCEPT !.route = "file", !.id = filename,
                                 !.phase = "sending",
                                 !.entries = <<OriginalName(filename)>>]
              ELSE Answer("file", filename, 404, "json", "File not found")
    /\ budget' = [budget EXCEPT !.gets = @ - 1]
    /\ UNCHANGED <<proc, clock, timerDue, blobs, doc, fileGroupMap, req>>

(* res.download reads the file: it is sent, or it is gone by now and the   *)
(* error goes to the framework's error handler.                            *)
SendFile ==
    /\ proc = "up"
    /\ get.route = "file"
    /\ get.phase = "sending"
    /\ get' = IF get.id \in DOMAIN blobs
              THEN [get EXCEPT !.phase = "done", !.status = 200,
                               !.body = "file", !.headersSent = TRUE]
              ELSE Answer("file", get.id, 404, "html", "ENOENT")
    /\ UNCHANGED <<proc, clock, timerDue, blobs, doc, fileGroupMap, req, budget>>

(* The files the handler hands to archive.file: those that exist. *)
ArchiveQueue_NoCheck(filesToZip, bl) ==
    [i \in 1..Len(filesToZip) |->
        [path |-> filesToZip[i], name |-> OriginalName(filesToZip[i])]]

ArchiveQueue(filesToZip, bl) ==
    LET exists(serverFilename) == serverFilename \in DOMAIN bl
        present == SelectSeq(filesToZip, exists)
    IN [i \in 1..Len(present) |->
           [path |-> present[i], name |-> OriginalName(present[i])]]

(* GET /download-group/:groupId, up to archive.finalize() *)
DownloadGroup(groupId) ==
    /\ proc = "up"
    /\ GetIdle
    /\ budget.gets > 0
    /\ LET filesToZip == Lookup(fileGroupMap, groupId)
       IN get' =
            IF filesToZip.kind = "undefined" \/ filesToZip.length = 0
            THEN Answer("group", groupId, 404, "text",
                        "File group not found or empty.")
            ELSE IF filesToZip.kind # "array"
            THEN \* filesToZip.forEach is not a function
                 Answer("group", groupId, 500, "html", "TypeError")
            ELSE [NoGet EXCEPT !.route = "group", !.id = groupId,
                               !.phase = "streaming", !.status = 200,
                               !.body = "zip",
                               !.queue = ArchiveQueue(filesToZip.list, blobs)]
    /\ budget' = [budget EXCEPT !.gets = @ - 1]
    /\ UNCHANGED <<proc, clock, timerDue, blobs, doc, fileGroupMap, req>>

(* The archiver takes the next queued file, or ends the archive.  A file   *)
(* that is gone by now is a warning (its stat fails) or an error (its read *)
(* fails); the error handler sets the status and sends, which throws once  *)
(* the response has started.                                               *)
ArchiveStep(onMissing) ==
    /\ proc = "up"
    /\ get.route = "group"
    /\ get.phase = "streaming"
    /\ IF get.queue = <<>>
       THEN /\ get' = [get EXCEPT !.phase = "done", !.headersSent = TRUE]
            /\ UNCHANGED <<proc, fileGroupMap, req>>
       ELSE IF Head(get.queue).path \in DOMAIN blobs
       THEN /\ get' = [get EXCEPT !.queue = Tail(@),
                                  !.entries = Append(@, Head(get.queue).name),
                                  !.headersSent = TRUE]
            /\ UNCHANGED <<proc, fileGroupMap, req>>
       ELSE IF onMissing = "warning"
       THEN /\ get' = [get EXCEPT !.queue = Tail(@)]
            /\ UNCHANGED <<proc, fileGroupMap, req>>
       ELSE IF get.headersSent
       THEN /\ ProcessEnds("crashed")
            /\ get' = [get EXCEPT !.phase = "dead"]
       ELSE /\ get' = [get EXCEPT !.phase = "done", !.status = 500,
                                  !.body = "json", !.error = "ENOENT",
                                  !.headersSent = TRUE]
            /\ UNCHANGED <<proc, fileGroupMap, req>>
    /\ UNCHANGED <<clock, timerDue, blobs, doc, budget>>

(* What GET /group-info/:groupId answers from a map. *)
InfoAnswer(map, groupId) ==
    LET filesInGroup == Lookup(map, groupId)
    IN IF filesInGroup.kind = "undefined" \/ filesInGroup.length = 0
       THEN Answer("info", groupId, 404, "json", "File group not found")
       ELSE IF filesInGroup.kind # "array"
       THEN \* filesInGroup.map is not a function
            Answer("info", groupId, 500, "html", "TypeError")
       ELSE [Answer("info", groupId, 200, "json", "") EXCEPT
                !.entries = [i \in 1..Len(filesInGroup.list) |->
                                OriginalName(filesInGroup.list[i])]]

(* GET /group-info/:groupId *)
GroupInfo(groupId) ==
    /\ proc = "up"
    /\ GetIdle
    /\ budget.gets > 0
    /\ get' = InfoAnswer(fileGroupMap, groupId)
    /\ budget' = [budget EXCEPT !.gets = @ - 1]
    /\ UNCHANGED <<proc, clock, timerDue, blobs, doc, fileGroupMap, req>>

----------------------------------------------------------------------------

UploadSteps ==
    \/ \E u \in Uploads : UploadBegin(u)
    \/ \E u \in Uploads, o \in OrigNames, rnd \in RandomStrs, size \in Sizes,
          diskOk \in BOOLEAN : UploadFilePart(u, o, rnd, size, diskOk)
    \/ \E u \in Uploads : UploadEnd(u)
    \/ \E u \in Uploads : UploadRespond(u)
    \/ \E u \in Uploads, cleaned \in BOOLEAN : UploadAbort(u, cleaned)

ReadSteps ==
    \/ \E f \in FileIds : DownloadFile(f)
    \/ SendFile
    \/ \E g \in GroupIds : DownloadGroup(g)
    \/ \E m \in {"warning", "error"} : ArchiveStep(m)
    \/ \E g \in GroupIds : GroupInfo(g)

ProcessSteps ==
    \/ \E readOk \in BOOLEAN : Start(readOk)
    \/ Stop

TimerSteps ==
    \/ cleanupOldFiles
    \/ \E d \in TickSteps : Tick(d)

DeleteSteps == \E n \in DOMAIN blobs : ExternalDelete(n)

(* The whole system, each kind of outside event at most AllEvents times. *)
Init ==
    /\ Fresh
    /\ budget = Budget(SoloUploads, AllParts, AllEvents, AllEvents, AllEvents, AllEvents)

Next == UploadSteps \/ ReadSteps \/ ProcessSteps \/ TimerSteps \/ DeleteSteps

Spec == Init /\ [][Next]_vars

(* Concurrent uploads, all within one millisecond. *)
InitUpload == Fresh /\ budget = Budget(MaxUploads, MaxParts, 0, 0, 0, 0)

NextUpload == UploadSteps

SpecUpload == InitUpload /\ [][NextUpload]_vars

(* One upload that can send a part more than MAX_FILE_COUNT. *)
InitLimit == Fresh /\ budget = Budget(SoloUploads, LimitParts, 0, 0, 0, 0)

NextLimit == UploadSteps

SpecLimit == InitLimit /\ [][NextLimit]_vars

(* The file parts of one upload, under any original name, at different     *)
(* times.                                                                  *)
InitNaming == Fresh /\ budget = Budget(SoloUploads, NamingParts, NamingTicks, 0, 0, 0)

NextNaming ==
    \/ \E u \in Uploads : UploadBegin(u)
    \/ \E u \in Uploads, o \in NameInputs, rnd \in RandomInputs, size \in Sizes,
          diskOk \in BOOLEAN : UploadFilePart(u, o, rnd, size, diskOk)
    \/ \E d \in TickSteps : Tick(d)

SpecNaming == InitNaming /\ [][NextNaming]_vars

(* Uploads and restarts of the process, the document being readable. *)
InitPersist == Fresh /\ budget = Budget(SoloUploads, PersistParts, 0, PersistRestarts, 0, 0)

NextPersist == UploadSteps \/ Start(TRUE) \/ Stop

SpecPersist == InitPersist /\ [][NextPersist]_vars

(* Uploads and restarts, the document readable or not. *)
InitStartup == Fresh /\ budget = Budget(MaxUploads, StartupParts, 0, StartupRestarts, 0, 0)

NextStartup ==
    \/ \E u \in Uploads : UploadBegin(u)
    \/ \E u \in Uploads, o \in OrigNames, rnd \in RandomStrs, size \in Sizes,
          diskOk \in BOOLEAN : UploadFilePart(u, o, rnd, size, diskOk)
    \/ \E u \in Uploads : UploadEnd(u)
    \/ ProcessSteps

SpecStartup == InitStartup /\ [][NextStartup]_vars

(* An upload, the passing of time and the cleanup timer. *)
InitSweep == Fresh /\ budget = Budget(SoloUploads, SweepParts, SweepTicks, SweepRestarts, 0, 0)

NextSweep == UploadSteps \/ TimerSteps \/ ProcessSteps

SpecSweep == InitSweep /\ [][NextSweep]_vars

(* An upload, deletions from outside and the read routes. *)
InitRead == Fresh /\ budget = Budget(SoloUploads, ReadParts, 0, 0, ReadGets, ReadDeletes)

NextRead == UploadSteps \/ ReadSteps \/ DeleteSteps

SpecRead == InitRead /\ [][NextRead]_vars

----------------------------------------------------------------------------
(* The claims. *)

(* Every file an upload request has been given a name for: <<u, i>>. *)
AllFiles ==
    {p \in Uploads \X (1..MAX_FILE_COUNT) : p[2] <= Len(req[p[1]].files)}

StoredName(p) == req[p[1]].files[p[2]].filename

(* C1: in every reachable state every storedName in the list of a groupId  *)
(* has that groupId as its prefix, and the files of two different batches  *)
(* never share a prefix.                                                   *)
C1_SharedPrefix ==
    /\ \A g \in DOMAIN fileGroupMap :
          \A i \in 1..Len(fileGroupMap[g]) : PrefixOf(fileGroupMap[g][i]) = g
    /\ \A p, q \in AllFiles :
          p[1] # q[1] => PrefixOf(StoredName(p)) # PrefixOf(StoredName(q))

(* C2: a successful upload of one file leaves the map and the document as  *)
(* they are and links to /download-file/<storedName>; one of 2 to 4 files  *)
(* creates groupId -> the storedNames in upload order, in the map and in   *)
(* the document, with groupId the prefix all of them share, and links to   *)
(* /download-group/<groupId>.                                              *)
C2_SingleVsGroup ==
    [][\A u \in Uploads :
          (UploadEnd(u) /\ req'[u].phase = "qr") =>
             LET names == Filenames(req[u].files)
                 link == req'[u].link
             IN /\ Len(names) = 1 =>
                      /\ UNCHANGED <<fileGroupMap, doc>>
                      /\ link = [route |-> "download-file", id |-> names[1]]
                /\ Len(names) \in 2..4 =>
                      /\ link.route = "download-group"
                      /\ \A i \in 1..Len(names) : PrefixOf(names[i]) = link.id
                      /\ link.id \in DOMAIN fileGroupMap'
                      /\ fileGroupMap'[link.id] = names
                      /\ doc'.kind = "json"
                      /\ <<link.id, names>> \in doc'.pairs]_vars

(* C3: no two uploaded files ever receive the same storedName, whatever    *)
(* the interleaving of the uploads, so no blob is written twice.           *)
C3_UniqueStoredNames ==
    \A p, q \in AllFiles : p # q => StoredName(p) # StoredName(q)

(* C4: whenever the cleanup fires, every blob older than 24 hours is      *)
(* deleted by it and every younger blob is left as it is.                  *)
C4_SweepDeletesExpired ==
    [][cleanupOldFiles =>
          \A n \in DOMAIN blobs :
             IF clock - blobs[n].mtime > 24 * 60 * 60 * 1000
             THEN n \notin DOMAIN blobs'
             ELSE n \in DOMAIN blobs' /\ blobs'[n] = blobs[n]]_vars

(* C5: while a download is in flight, no step (a cleanup run, a deletion   *)
(* from outside, the read of a blob that is gone) crashes the process or   *)
(* raises an error after the response has started.                         *)
DownloadInFlight == get.phase \in {"sending", "streaming"}

C5_RaceTolerated ==
    [][DownloadInFlight =>
          /\ proc' # "crashed"
          /\ (get.headersSent => get'.status < 500)]_vars

(* C6: a group download of a group with a non-empty list answers 200 and   *)
(* hands to the archive, in list order, exactly the members whose blobs    *)
(* exist at that time, each under the original name it was uploaded with.  *)
UploadedAs(storedName) ==
    LET p == CHOOSE q \in AllFiles : StoredName(q) = storedName
    IN req[p[1]].files[p[2]].originalname

ExistingMembers(groupId) ==
    LET exists(n) == n \in DOMAIN blobs
    IN SelectSeq(fileGroupMap[groupId], exists)

C6_ArchiveCompleteness ==
    [][\A g \in DOMAIN fileGroupMap :
          (DownloadGroup(g) /\ Len(fileGroupMap[g]) > 0) =>
             /\ get'.status = 200
             /\ get'.phase = "streaming"
             /\ Len(get'.queue) = Len(ExistingMembers(g))
             /\ \A i \in 1..Len(get'.queue) :
                   /\ get'.queue[i].path = ExistingMembers(g)[i]
                   /\ get'.queue[i].name = UploadedAs(ExistingMembers(g)[i])]_vars

(* A group of two with one blob deleted: the archive ends with one entry   *)
(* and status 200.                                                         *)
C6_Witness ==
    /\ get.route = "group"
    /\ get.phase = "done"
    /\ get.status = 200
    /\ get.id \in DOMAIN fileGroupMap
    /\ Len(fileGroupMap[get.id]) = 2
    /\ Len(get.entries) = 1

(* C7: when the process starts again, group-info answers for the group of  *)
(* every upload that returned success what it answered before.             *)
GroupUploadSucceeded(u) ==
    /\ req[u].phase = "done"
    /\ req[u].status = 200
    /\ req[u].link.route = "download-group"

C7_SurvivesRestart ==
    [][(proc # "up" /\ proc' = "up") =>
          \A u \in Uploads :
             GroupUploadSucceeded(u) =>
                InfoAnswer(fileGroupMap', req[u].link.id)
                    = InfoAnswer(fileGroupMap, req[u].link.id)]_vars

(* C8: a group upload whose write of the document failed ends with a 5xx   *)
(* response, not with a success response.                                  *)
C8_SaveFailureIs5xx ==
    \A u \in Uploads :
       (req[u].phase = "done" /\ req[u].log = "Error saving file group map")
          => req[u].status >= 500

(* C9: the map and the document change only in the step that follows the   *)
(* end of a request's body, when every file of the batch has been written, *)
(* and they then hold that batch; a step in which an upload fails or is    *)
(* aborted leaves them as they are.                                        *)
C9_StoreAfterBlobs ==
    [][/\ (fileGroupMap' # fileGroupMap \/ doc' # doc) =>
             \E u \in Uploads :
                /\ UploadEnd(u)
                /\ req'[u].link.id \in DOMAIN fileGroupMap'
                /\ fileGroupMap'[req'[u].link.id] = Filenames(req[u].files)
       /\ \A u \in Uploads :
             (/\ req[u].phase = "recv"
              /\ (req'[u].phase \in {"aborted", "dead"} \/ req'[u].status >= 400))
                => UNCHANGED <<fileGroupMap, doc>>]_vars

(* One batch is in the map, and another failed after two of its files had  *)
(* been written, leaving no entry.                                         *)
C9_Witness ==
    \E u, v \in Uploads :
       /\ req[u].phase \in {"qr", "done"}
       /\ req[u].link.route = "download-group"
       /\ fileGroupMap[req[u].link.id] = Filenames(req[u].files)
       /\ req[v].status = 400
       /\ Len(req[v].files) >= 2
       /\ PrefixOf(req[v].files[1].filename) \notin DOMAIN fileGroupMap

(* C10: the file part after the fourth is answered 400 "too many files",   *)
(* leaves no blob of its batch and leaves the map and the document as they *)
(* are; a file of more than 50 MiB among the first four is answered 400    *)
(* "file too large".                                                       *)
C10_LimitsEnforced ==
    [][\A u \in Uploads :
          \A o \in OrigNames, rnd \in RandomStrs, size \in Sizes, diskOk \in BOOLEAN :
             UploadFilePart(u, o, rnd, size, diskOk) =>
                /\ Len(req[u].files) >= 4 =>
                      /\ req'[u].phase = "done"
                      /\ req'[u].status = 400
                      /\ req'[u].code = "LIMIT_FILE_COUNT"
                      /\ req'[u].error =
                            [text |-> "Too many files selected. Maximum is", n |-> 4]
                      /\ \A n \in DOMAIN blobs' : blobs'[n].owner # u
                      /\ UNCHANGED <<fileGroupMap, doc>>
                /\ (Len(req[u].files) < 4 /\ size > 50 * 1024 * 1024) =>
                      /\ req'[u].phase = "done"
                      /\ req'[u].status = 400
                      /\ req'[u].code = "LIMIT_FILE_SIZE"
                      /\ req'[u].error =
                            [text |-> "File too large. Maximum size is MB.", n |-> 50]]_vars

C10_Witness ==
    \E u \in Uploads :
       /\ Len(req[u].files) = 4
       /\ req[u].status = 400
       /\ req[u].code = "LIMIT_FILE_COUNT"
       /\ \A n \in DOMAIN blobs : blobs[n].owner # u

(* C11: on each of the three read routes a request for an identifier the   *)
(* server does not know is answered 404 with a JSON body that has an error *)
(* field, and the process stays up.                                        *)
StructuredNotFound(answer) ==
    /\ answer.phase = "done"
    /\ answer.status = 404
    /\ answer.body = "json"
    /\ answer.error # ""

C11_StructuredNotFound ==
    [][/\ \A f \in FileIds :
             (f \notin DOMAIN blobs /\ DownloadFile(f)) =>
                (StructuredNotFound(get') /\ proc' = "up")
       /\ \A g \in GroupIds :
             (g \notin DOMAIN fileGroupMap /\ DownloadGroup(g)) =>
                (StructuredNotFound(get') /\ proc' = "up")
       /\ \A g \in GroupIds :
             (g \notin DOMAIN fileGroupMap /\ GroupInfo(g)) =>
                (StructuredNotFound(get') /\ proc' = "up")]_vars

(* C12: for every original name F, hyphens included, the stored name given *)
(* to F is <prefix>-F with a prefix free of hyphens: the name recovered    *)
(* from it is F, and the group id recovered from it is the generated       *)
(* prefix, the time of the write in base 36 followed by a salt.            *)
C12_RoundTrip ==
    \A p \in AllFiles :
       LET F == req[p[1]].files[p[2]].originalname
           storedName == StoredName(p)
       IN /\ OriginalName(storedName) = F
          /\ storedName = PrefixOf(storedName) \o <<"-">> \o F
          /\ storedName \in DOMAIN blobs =>
                \E rnd \in RandomInputs :
                   PrefixOf(storedName) =
                      ToString36(blobs[storedName].mtime) \o Substring(rnd, 2, 5)

(* A file named "--" has been stored after the clock moved past the       *)
(* expiry threshold, its blob being in the folder.                         *)
C12_Witness ==
    \E u \in Uploads :
       /\ Len(req[u].files) = 1
       /\ req[u].files[1].originalname = <<"-", "-">>
       /\ Len(PrefixOf(req[u].files[1].filename)) > 4
       /\ req[u].files[1].filename \in DOMAIN blobs

(* C13: a cleanup run leaves the process up and the timer set for the next *)
(* run, whatever happens to single blobs during the run.                   *)
C13_SweepKeepsSchedule ==
    [][cleanupOldFiles => (proc' = "up" /\ timerDue' > timerDue)]_vars

GroupAbsent(g) == g \notin DOMAIN fileGroupMap \/ fileGroupMap[g] = <<>>

C15_InfoMatchesStore ==
    [][\A g \in GroupIds :
          GroupInfo(g) =>
             /\ get'.status = 404 <=> GroupAbsent(g)
             /\ ~GroupAbsent(g) =>
                   /\ get'.status = 200
                   /\ get'.entries =
                         [i \in 1..Len(fileGroupMap[g]) |-> UploadedAs(fileGroupMap[g][i])]
             /\ UNCHANGED <<blobs, fileGroupMap, doc>>]_vars

(* C16: every 400 answer of the upload route carries an error message and  *)
(* a code, and the code tells the three causes apart: file too large, too  *)
(* many files, no files.                                                   *)
C16_ClientErrorsCoded ==
    \A u, v \in Uploads :
       (req[u].status = 400 /\ req[v].status = 400) =>
          /\ req[u].error.text # ""
          /\ req[u].code # ""
          /\ req[u].error.text # req[v].error.text => req[u].code # req[v].code

(* C17: while the process runs, an entry of the map, once created, is      *)
(* never removed and its list never changes, so group-info keeps giving    *)
(* the same answer for its groupId.                                        *)
C17_EntriesAreStable ==
    [][(proc = "up" /\ proc' = "up") =>
          \A g \in DOMAIN fileGroupMap :
             /\ g \in DOMAIN fileGroupMap'
             /\ fileGroupMap'[g] = fileGroupMap[g]
             /\ InfoAnswer(fileGroupMap', g) = InfoAnswer(fileGroupMap, g)]_vars

(* C18: group download answers 404 only for a groupId that is absent from  *)
(* the map or has an empty list; for a groupId with a non-empty list it    *)
(* answers 200 and starts an archive whichever blobs exist, and when none  *)
(* of them exists the archive is handed no file and ends with no entry.    *)
NoBlobOf(g) ==
    \A i \in 1..Len(fileGroupMap[g]) : fileGroupMap[g][i] \notin DOMAIN blobs

C18_NotFoundFromStoreOnly ==
    [][/\ \A g \in GroupIds :
             DownloadGroup(g) =>
                /\ get'.status = 404 => GroupAbsent(g)
                /\ (g \in DOMAIN fileGroupMap /\ ~GroupAbsent(g)) =>
                      /\ get'.status = 200
                      /\ get'.phase = "streaming"
                      /\ get'.body = "zip"
                      /\ NoBlobOf(g) => get'.queue = <<>>
       /\ \A m \in {"warning", "error"} :
             (ArchiveStep(m) /\ get.queue = <<>>) =>
                /\ get'.phase = "done"
                /\ get'.status = 200
                /\ get'.entries = get.entries]_vars

(* The archive of a group of two, both blobs deleted, has ended with       *)
(* status 200 and no entry.                                                *)
C18_Witness ==
    /\ get.route = "group"
    /\ get.phase = "done"
    /\ get.status = 200
    /\ get.entries = <<>>
    /\ get.id \in DOMAIN fileGroupMap
    /\ Len(fileGroupMap[get.id]) = 2
    /\ fileGroupMap[get.id][1] # fileGroupMap[get.id][2]
    /\ NoBlobOf(get.id)

(* C19: the process always starts, with an empty map when the document is  *)
(* missing, empty, unreadable or not parseable; and a save that succeeds   *)
(* leaves a document that holds the in-memory map and nothing else.        *)
C19_LoadAndSave ==
    [][/\ \A readOk \in BOOLEAN :
             Start(readOk) =>
                /\ proc' = "up"
                /\ (~readOk \/ doc.kind \in {"missing", "emptied", "truncated"})
                      => fileGroupMap' = [k \in {} |-> <<>>]
       /\ \A u \in Uploads :
             (UploadEnd(u) /\ req'[u].link.route = "download-group"
                 /\ req'[u].log = "") =>
                /\ doc'.kind = "json"
                /\ doc'.pairs = {<<g, fileGroupMap'[g]>> : g \in DOMAIN fileGroupMap'}
                /\ JSONparse(doc'.pairs) = fileGroupMap']_vars

(* A group that was saved is gone from the document: the process started   *)
(* again with an empty map and the save of a later group rewrote the       *)
(* document.                                                               *)
C19_Witness ==
    \E u, v \in Uploads :
       /\ proc = "up"
       /\ req[u].link.route = "download-group"
       /\ req[u].log = ""
       /\ req[v].link.route = "download-group"
       /\ req[v].log = ""
       /\ req[v].link.id # req[u].link.id
       /\ doc.kind = "json"
       /\ doc.pairs = {<<req[v].link.id, Filenames(req[v].files)>>}
       /\ req[u].link.id \notin DOMAIN fileGroupMap

(* C20: every list in the map and in the document has 2 to 4 stored       *)
(* names; no upload writes an empty list or a list of one.                 *)
C20_GroupSizes ==
    /\ \A g \in DOMAIN fileGroupMap : Len(fileGroupMap[g]) \in 2..4
    /\ \A pair \in doc.pairs : Len(pair[2]) \in 2..4

(* A group of four files, the most the limit lets through, is in the map  *)
(* and in the document.                                                    *)
C20_Witness ==
    \E g \in DOMAIN fileGroupMap :
       /\ Len(fileGroupMap[g]) = 4
       /\ <<g, fileGroupMap[g]>> \in doc.pairs

====
